---- MODULE Spec2Model ----
(***************************************************************************)
(* four-keys: the release classifier (core.QueryReleases) and the metrics  *)
(* aggregator (cli.defaultAction and its helpers).                         *)
(*                                                                         *)
(* Time is counted in whole hours.  A repository is a linear history of    *)
(* commits, one every ten hours starting at hour 0; every tag points at a  *)
(* commit of its own, after the root.  A time.Duration is an integer       *)
(* number of hours, a float64 is an exact ratio or one of the IEEE         *)
(* specials NaN, +Inf, -Inf.  Go slices are sequences; indexes kept in     *)
(* variables are Go's 0-based values, so s[k] in Go is s[k + 1] here.      *)
(***************************************************************************)
EXTENDS Integers, Sequences, FiniteSets

\* repository, sources, option: the inputs.  i, releases,
\* nextSuccessReleaseIndex, isRestored: the locals of QueryReleases.
\* traversed: one record per commit-range traversal QueryReleases has run.
\* pc: "start" (the command line is not parsed yet), "loop", "returned"
\* (QueryReleases is over), "done" (output written), "failed" (the command
\* returned an error).
\* args: whether --since and --until are well formed.  error: the field the
\* returned error names.
VARIABLES repository, sources, option, i, releases,
          nextSuccessReleaseIndex, isRestored, traversed, pc, output,
          args, error

vars == <<repository, sources, option, i, releases,
          nextSuccessReleaseIndex, isRestored, traversed, pc, output,
          args, error>>

(* ------------------------------ bounds -------------------------------- *)

\* commits in the repository's history
NumCommits == 5
\* tags in the repository
MaxSources == 4
\* releases handed to the aggregator when it is exercised on its own
MaxReleases == 4
\* traversals whose external call (git log, the ancestry walk) fails in one run
MaxFailures == 1

(* ----------------------------- constants ------------------------------ *)

\* daysCount := int(duration.Hours() / 24)
HoursPerDay == 24

\* a nil *Option, a nil *regexp.Regexp
NilOption == [isNil |-> TRUE]
NilPattern == "nil"
\* the one ignore pattern of the model: tag names that start with "rc"
RcPattern == "^rc"

\* commit messages; the last contains the literal "hotfix"
RootMessage == "initial commit"
Messages == {"feat: add flag", "hotfix: patch"}
\* a message with a body: subject, blank line, body
BodyMessage == "fix crash\n\nhotfix for the last release"

\* committer time of the k-th commit of the history (1 is the root)
CommitTime(k) == 10 * (k - 1)

\* the windows <<since, until>> the options are drawn from: less than a day
\* long around hour 10, bounded by commit times on both sides, empty, and
\* around the whole history
Windows == {<<0, 20>>, <<10, 40>>, <<20, 20>>, <<0, CommitTime(NumCommits) + 10>>}

\* a tag name: "v3" is Tag("v", 3), "rc2" is Tag("rc", 2)
Tag(prefix, num) == [prefix |-> prefix, num |-> num]

(* ------------------------- integer arithmetic ------------------------- *)

\* Go's integer division and float-to-int conversion truncate toward zero
GoDiv(a, b) ==
  IF a >= 0 THEN (IF b > 0 THEN a \div b ELSE 0 - (a \div (0 - b)))
  ELSE (IF b > 0 THEN 0 - ((0 - a) \div b) ELSE (0 - a) \div (0 - b))

(* ------------------------------ float64 ------------------------------- *)

NaN == [kind |-> "NaN", num |-> 0, den |-> 1]
PosInf == [kind |-> "+Inf", num |-> 0, den |-> 1]
NegInf == [kind |-> "-Inf", num |-> 0, den |-> 1]
Finite(n, d) == [kind |-> "finite", num |-> n, den |-> d]

\* float64(n) / float64(d) for integers n and d
FloatDiv(n, d) ==
  IF d = 0
  THEN (IF n = 0 THEN NaN ELSE IF n > 0 THEN PosInf ELSE NegInf)
  ELSE Finite(n, d)

(* ------------------------------- Option ------------------------------- *)

\* the strings of the model that a pattern matches
MatchString(pattern, s) ==
  pattern = RcPattern /\ \E num \in 1..MaxSources : s = Tag("rc", num)

ContainsHotfix(message) == message \in {"hotfix: patch", BodyMessage}

\* %s of git log: the subject, the message up to its first blank line
Subject(message) == IF message = BodyMessage THEN "fix crash" ELSE message

\* isInTimeRange taking the upper bound of the window as inclusive
isInTimeRange_UntilInclusive(o, time) ==
  IF o = NilOption THEN TRUE
  ELSE time > o.Since /\ time <= o.Until

isInTimeRange(o, time) ==
  IF o = NilOption THEN TRUE
  ELSE time > o.Since /\ time < o.Until

shouldIgnore(o, name) ==
  IF o = NilOption \/ o.IgnorePattern = NilPattern THEN FALSE
  ELSE MatchString(o.IgnorePattern, name)

isFixedCommit(o, commitMessage) ==
  IF o = NilOption \/ o.FixCommitPattern = NilPattern
  THEN ContainsHotfix(commitMessage)
  ELSE MatchString(o.FixCommitPattern, commitMessage)

(* ------------------------- commit-range traversal --------------------- *)

\* Committer.When of the commit a source's tag points at
When(repo, source) == repo[source.commit].when

\* the commits reachable from commit c and not from commit p (0: no
\* boundary), newest first, as indexes into the history
traverseCommits(p, c) == [k \in 1..(c - p) |-> c - k + 1]

\* git log --since <since> --format="%ct %s" --date-order <c>: one line per
\* commit reachable from c whose committer time, in seconds, is not before
\* since; newest first
GitLog(repo, since, c) ==
  LET RECURSIVE Lines(_)
      Lines(k) ==
        IF k = 0 \/ repo[k].when * 3600 < since THEN <<>>
        ELSE <<[ct |-> repo[k].when * 3600, s |-> Subject(repo[k].message)]>> \o Lines(k - 1)
  IN Lines(c)

\* the git command strategy reporting no lead time for the oldest source
getIsRestoredAndLeadTimeForChangesByLocalGit_OldestIsZero(repo, srcs, idx, o, cmdErr, parseErr) ==
  LET source == srcs[idx + 1]
      since == IF idx < Len(srcs) - 1
               THEN When(repo, srcs[idx + 2]) * 3600 + 1
               ELSE 0 - 1
      out == IF cmdErr THEN <<>> ELSE GitLog(repo, since, source.commit)
      restoresPreRelease == \E n \in 1..Len(out) : isFixedCommit(o, out[n].s)
      lastCommitWhen == out[Len(out)].ct \div 3600
  IN [isRestored |-> restoresPreRelease,
      leadTimeForChanges |->
        IF ~cmdErr /\ Len(out) > 0 /\ ~parseErr /\ idx < Len(srcs) - 1
        THEN When(repo, source) - lastCommitWhen
        ELSE 0]

\* cmdErr: the command could not run or exited non-zero; parseErr: ParseInt
\* rejects the digits of the last line
getIsRestoredAndLeadTimeForChangesByLocalGit(repo, srcs, idx, o, cmdErr, parseErr) ==
  LET source == srcs[idx + 1]
      since == IF idx < Len(srcs) - 1
               THEN When(repo, srcs[idx + 2]) * 3600 + 1
               ELSE 0 - 1
      out == IF cmdErr THEN <<>> ELSE GitLog(repo, since, source.commit)
      restoresPreRelease == \E n \in 1..Len(out) : isFixedCommit(o, out[n].s)
      lastCommitWhen == out[Len(out)].ct \div 3600
  IN [isRestored |-> restoresPreRelease,
      leadTimeForChanges |->
        IF ~cmdErr /\ Len(out) > 0 /\ ~parseErr
        THEN When(repo, source) - lastCommitWhen
        ELSE 0]

\* visited: how many commits the walk handed to the callback; a walk that
\* fails (err) may stop anywhere
getIsRestoredAndLeadTimeForChangesByGoGit(repo, srcs, idx, o, err, visited) ==
  LET source == srcs[idx + 1]
      preReleaseCommit == IF idx < Len(srcs) - 1 THEN srcs[idx + 2].commit ELSE 0
      walk == SubSeq(traverseCommits(preReleaseCommit, source.commit), 1, visited)
      restoresPreRelease ==
        \E n \in 1..Len(walk) : isFixedCommit(o, repo[walk[n]].message)
  IN [isRestored |-> restoresPreRelease,
      leadTimeForChanges |->
        IF ~err /\ Len(walk) > 0
        THEN When(repo, source) - repo[walk[Len(walk)]].when
        ELSE 0]


(* ------------------------------ aggregator ---------------------------- *)

getMeanLeadTimeForChanges(rs) ==
  LET RECURSIVE Sum(_)
      Sum(n) == IF n = 0 THEN 0 ELSE rs[n].LeadTimeForChanges + Sum(n - 1)
  IN IF Len(rs) = 0 THEN 0 ELSE GoDiv(Sum(Len(rs)), Len(rs))

\* getTimeToRestoreServices leaving out the failed releases that no older
\* success precedes
getTimeToRestoreServices_SkipsOldestStreak(rs) ==
  LET RECURSIVE Scan(_, _, _, _, _)
      Scan(k, sum, countOfRestoreService, failedReleaseIndex, seenSuccess) ==
        IF k < 0
        THEN (IF countOfRestoreService = 0 THEN sum
              ELSE GoDiv(sum, countOfRestoreService))
        ELSE IF ~rs[k + 1].Result.IsSuccess
        THEN Scan(k - 1, sum, countOfRestoreService,
                  IF failedReleaseIndex < 0 /\ seenSuccess
                  THEN k ELSE failedReleaseIndex, seenSuccess)
        ELSE IF failedReleaseIndex < 0
        THEN Scan(k - 1, sum, countOfRestoreService, failedReleaseIndex, TRUE)
        ELSE Scan(k - 1, sum + (rs[k + 1].Date - rs[failedReleaseIndex + 1].Date),
                  countOfRestoreService + 1, 0 - 1, TRUE)
  IN Scan(Len(rs) - 1, 0, 0, 0 - 1, FALSE)

\* getTimeToRestoreServices measuring from the newest failed release of a run
getTimeToRestoreServices_NewestFailed(rs) ==
  LET RECURSIVE Scan(_, _, _, _)
      Scan(k, sum, countOfRestoreService, failedReleaseIndex) ==
        IF k < 0
        THEN (IF countOfRestoreService = 0 THEN sum
              ELSE GoDiv(sum, countOfRestoreService))
        ELSE IF ~rs[k + 1].Result.IsSuccess
        THEN Scan(k - 1, sum, countOfRestoreService, k)
        ELSE IF failedReleaseIndex < 0
        THEN Scan(k - 1, sum, countOfRestoreService, failedReleaseIndex)
        ELSE Scan(k - 1, sum + (rs[k + 1].Date - rs[failedReleaseIndex + 1].Date),
                  countOfRestoreService + 1, 0 - 1)
  IN Scan(Len(rs) - 1, 0, 0, 0 - 1)

getTimeToRestoreServices(rs) ==
  LET RECURSIVE Scan(_, _, _, _)
      Scan(k, sum, countOfRestoreService, failedReleaseIndex) ==
        IF k < 0
        THEN (IF countOfRestoreService = 0 THEN sum
              ELSE GoDiv(sum, countOfRestoreService))
        ELSE IF ~rs[k + 1].Result.IsSuccess
        THEN Scan(k - 1, sum, countOfRestoreService,
                  IF failedReleaseIndex < 0 THEN k ELSE failedReleaseIndex)
        ELSE IF failedReleaseIndex < 0
        THEN Scan(k - 1, sum, countOfRestoreService, failedReleaseIndex)
        ELSE Scan(k - 1, sum + (rs[k + 1].Date - rs[failedReleaseIndex + 1].Date),
                  countOfRestoreService + 1, 0 - 1)
  IN Scan(Len(rs) - 1, 0, 0, 0 - 1)

\* getChangeFailureRate counting the successes
getChangeFailureRate_CountsSuccesses(rs) ==
  LET RECURSIVE sumOfSuccess(_)
      sumOfSuccess(n) ==
        IF n = 0 THEN 0
        ELSE sumOfSuccess(n - 1) + (IF rs[n].Result.IsSuccess THEN 1 ELSE 0)
  IN IF Len(rs) = 0 THEN Finite(0, 1)
     ELSE FloatDiv(sumOfSuccess(Len(rs)), Len(rs))

\* getChangeFailureRate without the test for an empty list
getChangeFailureRate_NoEmptyGuard(rs) ==
  LET RECURSIVE sumOfFailure(_)
      sumOfFailure(n) ==
        IF n = 0 THEN 0
        ELSE sumOfFailure(n - 1) + (IF ~rs[n].Result.IsSuccess THEN 1 ELSE 0)
  IN FloatDiv(sumOfFailure(Len(rs)), Len(rs))

getChangeFailureRate(rs) ==
  LET RECURSIVE sumOfFailure(_)
      sumOfFailure(n) ==
        IF n = 0 THEN 0
        ELSE sumOfFailure(n - 1) + (IF ~rs[n].Result.IsSuccess THEN 1 ELSE 0)
  IN IF Len(rs) = 0 THEN Finite(0, 1)
     ELSE FloatDiv(sumOfFailure(Len(rs)), Len(rs))

(* ------------------------------- inputs ------------------------------- *)

Options ==
  {NilOption} \cup
  {[isNil |-> FALSE, Since |-> w[1], Until |-> w[2], IgnorePattern |-> ip,
    FixCommitPattern |-> NilPattern, IsLocalRepository |-> loc] :
     w \in Windows, ip \in {NilPattern, RcPattern}, loc \in BOOLEAN}

Repositories ==
  {[k \in 1..NumCommits |->
      [when |-> CommitTime(k),
       message |-> IF k = 1 THEN RootMessage ELSE m[k]]] :
     m \in [2..NumCommits -> Messages]}

\* commit indexes after the root, newest first: strictly so for
\* the tags, each on a commit of its own
Descending(len, strict) ==
  {f \in [1..len -> 2..NumCommits] :
     \A n \in 1..(len - 1) : IF strict THEN f[n] > f[n + 1] ELSE f[n] >= f[n + 1]}

\* getReleaseSourcesFromTags: the tags with their commits, newest commit
\* first.  The tag of the k-th oldest source is named v<k> or rc<k>.
SourceList(len, prefix, commit) ==
  [n \in 1..len |-> [tag |-> Tag(prefix[n], len - n + 1), commit |-> commit[n]]]

\* a release list the aggregator is exercised on: newest first, dates that
\* may coincide
ReleaseList(len, ok, lead, commit) ==
  [n \in 1..len |->
     [Tag |-> Tag("v", len - n + 1),
      Date |-> CommitTime(commit[n]),
      LeadTimeForChanges |-> lead[n],
      Result |-> [IsSuccess |-> ok[n], TimeToRestore |-> <<>>]]]

NoOutput == [written |-> FALSE]

\* --since and --until both parse; no error
WellFormed == [since |-> TRUE, until |-> TRUE]
NoError == "nil"

(* ----------------------------- QueryReleases -------------------------- *)

Init ==
  /\ repository \in Repositories
  /\ \E len \in 0..MaxSources :
       \E prefix \in [1..len -> {"v", "rc"}], commit \in Descending(len, TRUE) :
         sources = SourceList(len, prefix, commit)
  /\ option \in Options
  /\ i = 0
  /\ releases = <<>>
  /\ nextSuccessReleaseIndex = 0 - 1
  /\ isRestored = FALSE
  /\ traversed = <<>>
  /\ pc = "loop"
  /\ output = NoOutput
  /\ args = WellFormed
  /\ error = NoError

\* Ignore dropping the fix signal carried from the last emitted release
Ignore_DropsFixSignal ==
  /\ pc = "loop"
  /\ i < Len(sources)
  /\ shouldIgnore(option, sources[i + 1].tag)
  /\ i' = i + 1
  /\ isRestored' = FALSE
  /\ UNCHANGED <<repository, sources, option, releases,
                 nextSuccessReleaseIndex, traversed, pc, output,
                 args, error>>

\* the loop body's first continue
Ignore ==
  /\ pc = "loop"
  /\ i < Len(sources)
  /\ shouldIgnore(option, sources[i + 1].tag)
  /\ i' = i + 1
  /\ UNCHANGED <<repository, sources, option, releases,
                 nextSuccessReleaseIndex, isRestored, traversed, pc, output,
                 args, error>>

\* the loop body's second continue
SkipOutOfRange ==
  /\ pc = "loop"
  /\ i < Len(sources)
  /\ ~shouldIgnore(option, sources[i + 1].tag)
  /\ ~isInTimeRange(option, When(repository, sources[i + 1]))
  /\ i' = i + 1
  /\ UNCHANGED <<repository, sources, option, releases,
                 nextSuccessReleaseIndex, isRestored, traversed, pc, output,
                 args, error>>

\* isSuccessOf ignoring the carried flag
isSuccessOf_Always(restored) == TRUE

\* isSuccess := !isRestored
isSuccessOf(restored) == ~restored

\* timeToRestoreOf measured from the newest failed release of the streak
timeToRestoreOf_NewestFailed(rs, idx) == rs[idx + 1].Date - rs[idx + 2].Date

\* the release at nextSuccessReleaseIndex restored the streak of failures
\* that the last emitted release ends
timeToRestoreOf(rs, idx) == rs[idx + 1].Date - rs[Len(rs)].Date

\* closeStreak without the test that the last emitted release failed
closeStreak_AfterAnyRelease(rs, idx, isSuccess) ==
  IF isSuccess /\ Len(rs) > 0
  THEN [rs EXCEPT ![idx + 1].Result.TimeToRestore =
                    <<rs[idx + 1].Date - rs[Len(rs)].Date>>]
  ELSE rs

\* closeStreak recording the time to restore as soon as a failed release
\* arrives, on the last success, without waiting for an older success
closeStreak_OnEveryFailure(rs, idx, isSuccess) ==
  IF ~isSuccess /\ Len(rs) > 0
  THEN [rs EXCEPT ![idx + 1].Result.TimeToRestore =
                    <<rs[idx + 1].Date - rs[Len(rs)].Date>>]
  ELSE rs

\* the releases emitted so far, once a release classified isSuccess arrives
closeStreak(rs, idx, isSuccess) ==
  IF isSuccess /\ Len(rs) > 0 /\ ~rs[Len(rs)].Result.IsSuccess
  THEN [rs EXCEPT ![idx + 1].Result.TimeToRestore = <<timeToRestoreOf(rs, idx)>>]
  ELSE rs

\* EmitWith moving nextSuccessReleaseIndex to every emitted release, failed
\* or not
EmitWith_IndexFollowsEveryRelease(failed, visited) ==
  LET source == sources[i + 1]
      isSuccess == isSuccessOf(isRestored)
      got == IF option # NilOption /\ option.IsLocalRepository
             THEN getIsRestoredAndLeadTimeForChangesByLocalGit(
                    repository, sources, i, option,
                    failed /\ visited = 0, failed /\ visited > 0)
             ELSE getIsRestoredAndLeadTimeForChangesByGoGit(
                    repository, sources, i, option, failed, visited)
  IN /\ nextSuccessReleaseIndex' = Len(releases)
     /\ isRestored' = got.isRestored
     /\ traversed' = Append(traversed,
          [source |-> i, failed |-> failed, isRestored |-> got.isRestored,
           leadTimeForChanges |-> got.leadTimeForChanges])
     /\ releases' = Append(closeStreak(releases, nextSuccessReleaseIndex, isSuccess),
          [Tag |-> source.tag,
           Date |-> When(repository, source),
           LeadTimeForChanges |-> got.leadTimeForChanges,
           Result |-> [IsSuccess |-> isSuccess, TimeToRestore |-> <<>>]])

\* the rest of the loop body, given the outcome of the traversal's external
\* call: failed or not.  The ancestry walk fails after `visited` commits;
\* the git command fails with visited = 0, and with visited > 0 it runs but
\* the timestamp of its last line does not parse
EmitWith(failed, visited) ==
  LET source == sources[i + 1]
      isSuccess == isSuccessOf(isRestored)
      got == IF option # NilOption /\ option.IsLocalRepository
             THEN getIsRestoredAndLeadTimeForChangesByLocalGit(
                    repository, sources, i, option,
                    failed /\ visited = 0, failed /\ visited > 0)
             ELSE getIsRestoredAndLeadTimeForChangesByGoGit(
                    repository, sources, i, option, failed, visited)
  IN /\ nextSuccessReleaseIndex' =
          IF isSuccess THEN Len(releases) ELSE nextSuccessReleaseIndex
     /\ isRestored' = got.isRestored
     /\ traversed' = Append(traversed,
          [source |-> i, failed |-> failed, isRestored |-> got.isRestored,
           leadTimeForChanges |-> got.leadTimeForChanges])
     /\ releases' = Append(closeStreak(releases, nextSuccessReleaseIndex, isSuccess),
          [Tag |-> source.tag,
           Date |-> When(repository, source),
           LeadTimeForChanges |-> got.leadTimeForChanges,
           Result |-> [IsSuccess |-> isSuccess, TimeToRestore |-> <<>>]])

\* the traversals that failed so far
Failures == Cardinality({n \in 1..Len(traversed) : traversed[n].failed})

\* the length of the ancestry walk the traversal of sources[i] makes
WalkLen ==
  Len(traverseCommits(IF i < Len(sources) - 1 THEN sources[i + 2].commit ELSE 0,
                      sources[i + 1].commit))

Emit ==
  /\ pc = "loop"
  /\ i < Len(sources)
  /\ ~shouldIgnore(option, sources[i + 1].tag)
  /\ isInTimeRange(option, When(repository, sources[i + 1]))
  /\ \E failed \in BOOLEAN, visited \in 0..WalkLen :
       /\ (~failed => visited = WalkLen)
       /\ (failed => Failures < MaxFailures)
       /\ EmitWith(failed, visited)
  /\ i' = i + 1
  /\ UNCHANGED <<repository, sources, option, pc, output, args, error>>

\* the loop is over: return releases
Return ==
  /\ pc = "loop"
  /\ i = Len(sources)
  /\ pc' = "returned"
  /\ UNCHANGED <<repository, sources, option, i, releases,
                 nextSuccessReleaseIndex, isRestored, traversed, output,
                 args, error>>

(* ------------------------------ defaultAction ------------------------- *)

\* the part of defaultAction that follows QueryReleases and context.Option
defaultAction ==
  /\ pc = "returned"
  /\ option # NilOption
  /\ LET duration == option.Until - option.Since
         daysCount == GoDiv(duration, HoursPerDay)
         releasesCount == Len(releases)
     IN output' = [written |-> TRUE,
                   DeploymentFrequency |-> FloatDiv(releasesCount, daysCount),
                   LeadTimeForChanges |-> getMeanLeadTimeForChanges(releases),
                   TimeToRestoreServices |-> getTimeToRestoreServices(releases),
                   ChangeFailureRate |-> getChangeFailureRate(releases)]
  /\ pc' = "done"
  /\ UNCHANGED <<repository, sources, option, i, releases,
                 nextSuccessReleaseIndex, isRestored, traversed, args, error>>

Next ==
  \/ Ignore
  \/ SkipOutOfRange
  \/ Emit
  \/ Return
  \/ defaultAction

Spec == Init /\ [][Next]_vars

(* ------------------- the aggregator on its own ------------------------ *)

\* QueryReleases has returned some list of releases, newest first
InitAgg ==
  /\ repository \in {r \in Repositories : \A k \in 2..NumCommits : r[k].message = "feat: add flag"}
  /\ sources = <<>>
  /\ option \in {o \in Options : o # NilOption /\ o.IgnorePattern = NilPattern
                                  /\ ~o.IsLocalRepository}
  /\ i = 0
  /\ \E len \in 0..MaxReleases :
       \E ok \in [1..len -> BOOLEAN], lead \in [1..len -> {0, 10}],
          commit \in Descending(len, FALSE) :
         releases = ReleaseList(len, ok, lead, commit)
  /\ nextSuccessReleaseIndex = 0 - 1
  /\ isRestored = FALSE
  /\ traversed = <<>>
  /\ pc = "returned"
  /\ output = NoOutput
  /\ args = WellFormed
  /\ error = NoError

NextAgg == defaultAction

SpecAgg == InitAgg /\ [][NextAgg]_vars

\* ---- The two traversal strategies on the same input ----

\* histories whose commits may carry a message with a body
RepositoriesWithBodies ==
  {[k \in 1..NumCommits |->
      [when |-> CommitTime(k),
       message |-> IF k = 1 THEN RootMessage ELSE m[k]]] :
     m \in [2..NumCommits -> Messages \cup {BodyMessage}]}

\* no tag is ignored and the window holds the whole history, so that every
\* source is traversed, by either strategy
InitBackends ==
  /\ repository \in RepositoriesWithBodies
  /\ \E len \in 0..MaxSources :
       \E commit \in Descending(len, TRUE) :
         sources = SourceList(len, [k \in 1..len |-> "v"], commit)
  /\ \E loc \in BOOLEAN :
       option = [isNil |-> FALSE, Since |-> 0 - 1,
                 Until |-> CommitTime(NumCommits) + 10,
                 IgnorePattern |-> NilPattern, FixCommitPattern |-> NilPattern,
                 IsLocalRepository |-> loc]
  /\ i = 0
  /\ releases = <<>>
  /\ nextSuccessReleaseIndex = 0 - 1
  /\ isRestored = FALSE
  /\ traversed = <<>>
  /\ pc = "loop"
  /\ output = NoOutput
  /\ args = WellFormed
  /\ error = NoError

NextBackends ==
  \/ Emit
  \/ Return

SpecBackends == InitBackends /\ [][NextBackends]_vars

\* ---- The command line ----

Fields == {"since", "until"}

\* the fields context.Option() cannot parse; it returns an error naming one
\* of them, and no error when the set is empty
MalformedFields(a) == {f \in Fields : ~a[f]}

\* cli.QueryReleases(context): parses the option first and, when the option
\* parses, hands it to core.QueryReleases
QueryReleasesOfContext ==
  /\ pc = "start"
  /\ MalformedFields(args) = {}
  /\ pc' = "loop"
  /\ UNCHANGED <<repository, sources, option, i, releases,
                 nextSuccessReleaseIndex, isRestored, traversed, output,
                 args, error>>

defaultActionError_GoesOn ==
  /\ pc = "start"
  /\ \E f \in MalformedFields(args) : error' = f
  /\ pc' = "loop"
  /\ UNCHANGED <<repository, sources, option, i, releases,
                 nextSuccessReleaseIndex, isRestored, traversed, output, args>>

\* defaultAction when QueryReleases(context) returns an error: the error is
\* reported and returned, nothing is written
defaultActionError ==
  /\ pc = "start"
  /\ \E f \in MalformedFields(args) : error' = f
  /\ pc' = "failed"
  /\ UNCHANGED <<repository, sources, option, i, releases,
                 nextSuccessReleaseIndex, isRestored, traversed, output, args>>

\* the command starts with an option given on the command line, its time
\* bounds well formed or not
InitCli ==
  /\ repository \in Repositories
  /\ \E len \in 0..MaxSources :
       \E prefix \in [1..len -> {"v", "rc"}], commit \in Descending(len, TRUE) :
         sources = SourceList(len, prefix, commit)
  /\ option \in Options \ {NilOption}
  /\ i = 0
  /\ releases = <<>>
  /\ nextSuccessReleaseIndex = -1
  /\ isRestored = FALSE
  /\ traversed = <<>>
  /\ pc = "start"
  /\ output = NoOutput
  /\ args \in [Fields -> BOOLEAN]
  /\ error = NoError

NextCli ==
  \/ QueryReleasesOfContext
  \/ defaultActionError
  \/ Next

SpecCli == InitCli /\ [][NextCli]_vars


(* ------------------------------ properties ---------------------------- *)

IsSuccess(k) == releases[k].Result.IsSuccess
HasTimeToRestore(k) == Len(releases[k].Result.TimeToRestore) = 1
TimeToRestore(k) == releases[k].Result.TimeToRestore[1]

\* the source at 1-based position j was emitted
Emitted(j) == \E k \in 1..Len(releases) : releases[k].Tag = sources[j].tag

\* the oldest release of the run of failed releases that starts at position a
RECURSIVE OldestOfRun(_, _)
OldestOfRun(rs, a) ==
  IF a < Len(rs) /\ ~rs[a + 1].Result.IsSuccess THEN OldestOfRun(rs, a + 1) ELSE a

C2_FailedIffNewerTraversalFoundFix ==
  /\ Len(traversed) = Len(releases)
  /\ \A k \in 1..Len(releases) :
       /\ sources[traversed[k].source + 1].tag = releases[k].Tag
       /\ IsSuccess(k) = (k = 1 \/ ~traversed[k - 1].isRestored)

C2_Witness ==
  /\ pc = "returned"
  /\ \E k \in 2..Len(releases) :
       ~IsSuccess(k) /\ traversed[k].source > traversed[k - 1].source + 1
  /\ \E k \in 2..Len(releases) : IsSuccess(k)

\* C3, as stated: in the output, timeToRestore is set on a release iff it
\* is a success and the release processed just before it (the next newer
\* one) is failed.
C3_SetOnSuccessPrecededByFailures ==
  pc = "returned" =>
    \A k \in 1..Len(releases) :
      HasTimeToRestore(k) <=> (IsSuccess(k) /\ k > 1 /\ ~IsSuccess(k - 1))

\* C3, amended: timeToRestore is set on a release iff it is a success, the
\* releases processed right after it (the next older ones) are one or more
\* failed releases, and an emitted success follows them.
C3_SetOnSuccessBoundingClosedStreak ==
  \A k \in 1..Len(releases) :
    HasTimeToRestore(k) <=>
      /\ IsSuccess(k)
      /\ k < Len(releases)
      /\ ~IsSuccess(k + 1)
      /\ OldestOfRun(releases, k + 1) < Len(releases)

C3_Witness ==
  /\ pc = "returned"
  /\ \E k \in 1..Len(releases) : HasTimeToRestore(k)
  /\ \E k \in 1..(Len(releases) - 1) :
       IsSuccess(k) /\ ~IsSuccess(k + 1) /\ ~HasTimeToRestore(k)

\* the scenario of C4: tags v3, v2, v1 at hours 30, 20, 10, the only fix
\* commit is the one between v1 and v2, the window is around all three and
\* no traversal fails
C4_Scenario ==
  /\ Len(sources) = 3
  /\ \A n \in 1..3 : /\ sources[n].tag = Tag("v", 4 - n)
                     /\ When(repository, sources[n]) = 10 * (4 - n)
  /\ \A k \in 2..4 : ContainsHotfix(repository[k].message) <=> k = 3
  /\ option # NilOption
  /\ option.Since < 10
  /\ option.Until > 30
  /\ \A n \in 1..Len(traversed) : ~traversed[n].failed
  /\ pc = "done"

\* the verdicts and the failure rate that C4 expects
C4_Verdicts ==
  /\ Len(releases) = 3
  /\ releases[1].Tag = Tag("v", 3) /\ IsSuccess(1)
  /\ releases[2].Tag = Tag("v", 2) /\ IsSuccess(2)
  /\ releases[3].Tag = Tag("v", 1) /\ ~IsSuccess(3)
  /\ ~HasTimeToRestore(1)
  /\ ~HasTimeToRestore(3)
  /\ output.ChangeFailureRate.kind = "finite"
  /\ 3 * output.ChangeFailureRate.num = output.ChangeFailureRate.den

\* C4, as stated: in the scenario v1 is failed, v2 is a success with
\* timeToRestore = 10, v3 is a success and the change failure rate is 1/3.
C4_ScenarioRestoresInTen ==
  C4_Scenario =>
    C4_Verdicts /\ HasTimeToRestore(2) /\ TimeToRestore(2) = 10

\* C4, amended: as stated, but v2 carries no timeToRestore.
C4_ScenarioLeavesRestoreUnset ==
  C4_Scenario => C4_Verdicts /\ ~HasTimeToRestore(2)

C4_Witness == C4_Scenario

\* C5: timeToRestore is never set on a failed release, at most one release
\* per run of failed releases carries it, and its value is the date of the
\* release that carries it minus the date of the oldest failed release of
\* the run it bounds, which is not negative.
C5_TimeToRestoreBoundsOneStreak ==
  /\ \A k \in 1..Len(releases) :
       HasTimeToRestore(k) =>
         /\ IsSuccess(k)
         /\ k < Len(releases)
         /\ ~IsSuccess(k + 1)
         /\ TimeToRestore(k) =
              releases[k].Date - releases[OldestOfRun(releases, k + 1)].Date
         /\ TimeToRestore(k) >= 0
  /\ Cardinality({k \in 1..Len(releases) : HasTimeToRestore(k)})
       <= Cardinality({a \in 1..Len(releases) :
                         ~IsSuccess(a) /\ (a = 1 \/ IsSuccess(a - 1))})

C5_Witness ==
  \E k \in 1..Len(releases) :
    /\ HasTimeToRestore(k)
    /\ OldestOfRun(releases, k + 1) > k + 1

\* C6: a source whose tag is not ignored is emitted exactly when
\* since <= date < until.
C6_EmittedIffInHalfOpenWindow ==
  option # NilOption =>
    \A j \in 1..i :
      ~shouldIgnore(option, sources[j].tag) =>
        (Emitted(j) <=> /\ option.Since <= When(repository, sources[j])
                        /\ When(repository, sources[j]) < option.Until)

\* the whole days of the window, as C7 counts them
WindowDays == GoDiv(option.Until - option.Since, HoursPerDay)

IsZero(f) == f.kind = "finite" /\ f.num = 0

\* C7: the deployment frequency is the release count divided by the whole
\* days of the window, and 0 when the window has no whole day; it is never
\* Inf or NaN.
C7_FrequencyIsFiniteRatio ==
  pc = "done" =>
    /\ output.DeploymentFrequency.kind = "finite"
    /\ IF WindowDays = 0
       THEN IsZero(output.DeploymentFrequency)
       ELSE output.DeploymentFrequency.num * WindowDays
              = Len(releases) * output.DeploymentFrequency.den

\* C8: with no release, all four metrics are 0, whatever the window.
C8_NoReleaseAllMetricsZero ==
  pc = "done" /\ Len(releases) = 0 =>
    /\ IsZero(output.DeploymentFrequency)
    /\ output.LeadTimeForChanges = 0
    /\ output.TimeToRestoreServices = 0
    /\ IsZero(output.ChangeFailureRate)

\* C9: the change failure rate is the number of failed releases over the
\* number of releases, within [0, 1]; 0 for no release or no failure, 1
\* when every release of a non-empty list failed.
C9_FailureRateIsFailedOverAll ==
  pc = "done" =>
    LET rate == output.ChangeFailureRate
        failed == Cardinality({k \in 1..Len(releases) : ~IsSuccess(k)})
    IN /\ rate.kind = "finite"
       /\ rate.den > 0
       /\ 0 <= rate.num /\ rate.num <= rate.den
       /\ rate.num * Len(releases) = failed * rate.den
       /\ (failed = 0 => rate.num = 0)
       /\ (Len(releases) > 0 /\ failed = Len(releases) => rate.num = rate.den)

C9_Witness ==
  /\ pc = "done"
  /\ Len(releases) >= 3
  /\ \E k \in 1..Len(releases) : IsSuccess(k)
  /\ Cardinality({k \in 1..Len(releases) : ~IsSuccess(k)}) >= 2

\* the failure-to-success transitions of a release list: the positions of
\* the newest release of every run of failed releases that has a newer
\* success next to it
Transitions(rs) ==
  {a \in 2..Len(rs) : ~rs[a].Result.IsSuccess /\ rs[a - 1].Result.IsSuccess}

\* first success after the run minus the oldest failed release of the run
RestoreTime(rs, a) == rs[a - 1].Date - rs[OldestOfRun(rs, a)].Date

RECURSIVE TotalRestoreTime(_, _)
TotalRestoreTime(rs, S) ==
  IF S = {} THEN 0
  ELSE LET a == CHOOSE x \in S : TRUE
       IN RestoreTime(rs, a) + TotalRestoreTime(rs, S \ {a})

\* C10: the time to restore services is the mean (in whole hours) of the
\* restore times of the failure-to-success transitions, and 0 when there
\* is none; a run of failures without a newer success adds nothing.
C10_MeanOverTransitions ==
  pc = "done" =>
    LET count == Cardinality(Transitions(releases))
        total == TotalRestoreTime(releases, Transitions(releases))
        mean == output.TimeToRestoreServices
    IN IF count = 0 THEN mean = 0
       ELSE count * mean <= total /\ total < count * (mean + 1)

C10_Witness ==
  /\ pc = "done"
  /\ Len(releases) > 0
  /\ ~IsSuccess(1)
  /\ Cardinality(Transitions(releases)) = 1
  /\ \E a \in Transitions(releases) :
       releases[OldestOfRun(releases, a)].Date < releases[a].Date
  /\ output.TimeToRestoreServices > 0

\* C11: the releases QueryReleases returns are sorted by date, the first the
\* oldest and the last the newest.
C11_ReturnedOldestFirst ==
  pc = "returned" =>
    \A k \in 1..(Len(releases) - 1) : releases[k].Date <= releases[k + 1].Date

\* C12: when --since or --until is malformed the command returns an error
\* that names a malformed field; no source is processed, no commit range is
\* traversed, no release is classified and no result is written, before the
\* error or after it.
C12_MalformedBoundFailsBeforeTraversal ==
  /\ MalformedFields(args) # {} =>
       /\ pc \in {"start", "failed"}
       /\ i = 0
       /\ traversed = <<>>
       /\ releases = <<>>
       /\ output = NoOutput
  /\ pc = "failed" => error \in MalformedFields(args)
  /\ error # NoError => pc = "failed"

C12_Witness ==
  /\ pc = "failed"
  /\ error = "until"
  /\ args["since"]
  /\ Len(sources) >= 2

\* C13: a traversal that fails (the git command fails, the timestamp of its
\* last line does not parse, or the ancestry walk returns an error) reports
\* no fix commit and a lead time of 0, and its release is emitted all the
\* same.
C13_FailedTraversalYieldsNoFixAndZero ==
  /\ Len(traversed) = Len(releases)
  /\ \A n \in 1..Len(traversed) :
       traversed[n].failed =>
         /\ ~traversed[n].isRestored
         /\ traversed[n].leadTimeForChanges = 0
         /\ releases[n].LeadTimeForChanges = 0

\* C14: on the same history, sources and option, and with no failure of
\* the traversal, the git command and the ancestry walk report the same fix
\* signal and the same lead time for every source.
C14_StrategiesAgree ==
  \A idx \in 0..(Len(sources) - 1) :
    getIsRestoredAndLeadTimeForChangesByLocalGit(
      repository, sources, idx, option, FALSE, FALSE)
    = getIsRestoredAndLeadTimeForChangesByGoGit(
        repository, sources, idx, option, FALSE,
        Len(traverseCommits(
              IF idx < Len(sources) - 1 THEN sources[idx + 2].commit ELSE 0,
              sources[idx + 1].commit)))

\* the release emitted for the oldest source, if any: 0 when there is none
OldestSourceRelease ==
  IF \E k \in 1..Len(releases) : releases[k].Tag = sources[Len(sources)].tag
  THEN CHOOSE k \in 1..Len(releases) : releases[k].Tag = sources[Len(sources)].tag
  ELSE 0

RECURSIVE NewestOfOpenRun(_, _)
NewestOfOpenRun(rs, a) ==
  IF a > 1 /\ ~rs[a - 1].Result.IsSuccess THEN NewestOfOpenRun(rs, a - 1) ELSE a

\* C16: when QueryReleases returns and the oldest emitted releases are
\* failed, with no older emitted success to close their streak, the time to
\* restore is set on none of them and not on the newer success next to them.
C16_OpenStreakLeavesNoTimeToRestore ==
  pc = "returned" /\ Len(releases) > 0 /\ ~IsSuccess(Len(releases)) =>
    LET a == NewestOfOpenRun(releases, Len(releases))
    IN /\ \A k \in a..Len(releases) : ~HasTimeToRestore(k)
       /\ a > 1 => ~HasTimeToRestore(a - 1)

C16_Witness ==
  /\ pc = "returned"
  /\ Len(releases) = 4
  /\ ~IsSuccess(Len(releases))
  /\ NewestOfOpenRun(releases, Len(releases)) = 3
  /\ IsSuccess(2)
  /\ ~HasTimeToRestore(2)
  /\ IsSuccess(1)

\* the oldest releases are failed and a newer success follows them
OldestStreakHasNewerSuccess ==
  /\ Len(releases) > 0
  /\ ~IsSuccess(Len(releases))
  /\ NewestOfOpenRun(releases, Len(releases)) > 1

\* C17 as claimed: the run of failed releases at the old end of the list
\* adds nothing to the mean, even when a newer success follows it.
C17_OldestStreakExcluded ==
  pc = "done" /\ OldestStreakHasNewerSuccess =>
    LET others == Transitions(releases) \ {NewestOfOpenRun(releases, Len(releases))}
        count == Cardinality(others)
        total == TotalRestoreTime(releases, others)
        mean == output.TimeToRestoreServices
    IN IF count = 0 THEN mean = 0
       ELSE count * mean <= total /\ total < count * (mean + 1)

\* C17: the run of failed releases at the old end of the list, when a newer
\* success follows it, adds one restore to the count and the time from the
\* oldest release to that success to the sum.
C17_OldestStreakCounted ==
  pc = "done" /\ OldestStreakHasNewerSuccess =>
    LET a == NewestOfOpenRun(releases, Len(releases))
        others == Transitions(releases) \ {a}
        count == Cardinality(others) + 1
        total == TotalRestoreTime(releases, others)
                   + (releases[a - 1].Date - releases[Len(releases)].Date)
        mean == output.TimeToRestoreServices
    IN count * mean <= total /\ total < count * (mean + 1)

C17_Witness ==
  /\ pc = "done"
  /\ OldestStreakHasNewerSuccess
  /\ NewestOfOpenRun(releases, Len(releases)) = Len(releases) - 1
  /\ Transitions(releases) = {Len(releases) - 1}
  /\ releases[Len(releases) - 2].Date > releases[Len(releases)].Date
  /\ output.TimeToRestoreServices
       = releases[Len(releases) - 2].Date - releases[Len(releases)].Date

\* the loop is at a source it skips: its tag is ignored or its date is
\* outside the window
AtSkippedSource ==
  /\ pc = "loop"
  /\ i < Len(sources)
  /\ \/ shouldIgnore(option, sources[i + 1].tag)
     \/ ~isInTimeRange(option, When(repository, sources[i + 1]))

\* C18: a step of the loop over a skipped source emits nothing, runs no
\* traversal and leaves isRestored, nextSuccessReleaseIndex and the emitted
\* releases as they are; so the release emitted next, after any number of
\* skipped sources, is failed exactly when the traversal of the last emitted
\* release found a fix commit.
C18_SkipIsAFrame ==
  [][/\ AtSkippedSource /\ i' = i + 1 =>
          /\ releases' = releases
          /\ traversed' = traversed
          /\ isRestored' = isRestored
          /\ nextSuccessReleaseIndex' = nextSuccessReleaseIndex
     /\ Len(releases') = Len(releases) + 1 /\ Len(releases) > 0 =>
          releases'[Len(releases')].Result.IsSuccess
            = ~traversed[Len(traversed)].isRestored]_vars

C18_Witness ==
  /\ pc = "returned"
  /\ \E k \in 2..Len(releases) :
       /\ ~IsSuccess(k)
       /\ traversed[k].source = traversed[k - 1].source + 3
       /\ traversed[k - 1].isRestored

\* C19: once a release is emitted, nextSuccessReleaseIndex is an index of
\* the emitted list, the release there is a success, and every release
\* emitted after it is failed.
C19_IndexIsLastSuccess ==
  Len(releases) > 0 =>
    /\ 0 <= nextSuccessReleaseIndex
    /\ nextSuccessReleaseIndex < Len(releases)
    /\ IsSuccess(nextSuccessReleaseIndex + 1)
    /\ \A k \in (nextSuccessReleaseIndex + 2)..Len(releases) : ~IsSuccess(k)

C19_Witness ==
  /\ pc = "loop"
  /\ Len(releases) = 3
  /\ nextSuccessReleaseIndex = 1
  /\ ~IsSuccess(3)
  /\ i < Len(sources)

\* the releases of the output that carry a time to restore, and the sum of
\* the times they carry
Recorded == {k \in 1..Len(releases) : HasTimeToRestore(k)}

RECURSIVE SumOfRecorded(_)
SumOfRecorded(S) ==
  IF S = {} THEN 0
  ELSE LET k == CHOOSE x \in S : TRUE
       IN TimeToRestore(k) + SumOfRecorded(S \ {k})

====
